---- MODULE Spec2Model ----
(***************************************************************************)
(* haltarr (src/app.py): a polling loop that asks the configured media     *)
(* servers whether a session is active and pauses / resumes the configured *)
(* download clients on the edges of that signal, telling Discord first.    *)
(*                                                                         *)
(* One step of the model is one whole call of                              *)
(* MediaServerManager.check_and_notify (with every call it makes), or the  *)
(* time.sleep of main().  The answers of the outside world (media servers, *)
(* Discord, download clients) are the inputs of a step.                    *)
(***************************************************************************)
EXTENDS Integers, Sequences, FiniteSets, TLC

\* ------------------------------------------------------------------ bounds
\* Longest session list a media server answers with.
MaxSessions == 1
\* Most torrents a simulated download client holds.
MaxTorrents == 3
\* ------------------------------------------------------- program constants
\* requests.post raised: there is no response to read a status from.
NoResponse == 0
\* The only status DiscordNotifier.send_message accepts.
HttpNoContent == 204
\* Any other status of the Discord endpoint.
HttpServerError == 500

VARIABLES
    media_servers,        \* MediaServerManager.media_servers (list of kinds)
    download_services,    \* DownloadManager.download_services (list of kinds)
    webhook_url,          \* DiscordNotifier.webhook_url is set (truthy)
    has_already_activity, \* MediaServerManager.has_already_activity
    pc,                   \* position of main(): "check", "sleep", "crashed", "blocked"
    evaluations,          \* calls of check_and_notify so far: "none", "first", "later"
    readings,             \* what each media server answered this cycle
    aggregate,            \* has_active_sessions of this cycle
    prev_activity,        \* has_already_activity when this cycle began
    intents,              \* pause_downloads / resume_downloads calls this cycle
    calls,                \* outbound calls of this cycle, in order
    raised,               \* where an uncaught exception of this cycle came from
    returned,             \* what pause_downloads / resume_downloads returned this cycle
    last_call,            \* per download service: its most recent call and how it went
    last_intent,          \* the most recent intent of the run ("none" before the first)
    pauses_minus_resumes, \* Pause intents minus Resume intents of the run
    backend               \* a simulated download client driven through its adapter

vars == <<media_servers, download_services, webhook_url, has_already_activity,
          pc, evaluations, readings, aggregate, prev_activity, intents, calls, raised,
          returned, last_call, last_intent, pauses_minus_resumes, backend>>

\* ------------------------------------------------------------ media servers
\* What a media server can answer: a failed request (requests.RequestException:
\* connection error, timeout, HTTP error status via raise_for_status) or a
\* list of sessions, each with its IsActive flag.
RECURSIVE SeqsUpTo(_, _)
SeqsUpTo(S, n) ==
    IF n = 0 THEN {<<>>}
    ELSE LET shorter == SeqsUpTo(S, n - 1)
         IN  shorter \cup {Append(s, x) : s \in {t \in shorter : Len(t) = n - 1}, x \in S}

FailedRequest == [error |-> "RequestException", sessions |-> <<>>]

\* The server accepts the request and never answers it.
Unanswered == [error |-> "NoAnswer", sessions |-> <<>>]

\* requests.get(url, headers=headers) is called without timeout=, so it waits
\* for the answer without limit: the call never returns and never raises.
RequestBlocks(resp) == resp.error = "NoAnswer"

\* The IsActive flags of a server's session list.  Only the Jellyfin code reads
\* the flag; the Plex and Emby code read the number of sessions alone, so
\* their sessions are not told apart.
SessionFlags(kind) == IF kind = "Jellyfin" THEN BOOLEAN ELSE {TRUE}

Responses(kind) ==
    {FailedRequest} \cup
    {[error |-> "none", sessions |-> s] : s \in SeqsUpTo(SessionFlags(kind), MaxSessions)}

Ret(raisedHere, value) == [raised |-> raisedHere, value |-> value]

\* JellyfinMediaServer._fetch_sessions: the request error is caught, [] returned.
JellyfinFetchSessions(resp) ==
    IF resp.error = "RequestException" THEN Ret(FALSE, <<>>)
    ELSE Ret(FALSE, resp.sessions)

\* JellyfinMediaServer.has_active_sessions: any session with IsActive.
JellyfinHasActiveSessions(resp) ==
    LET fetched == JellyfinFetchSessions(resp)
    IN  IF fetched.raised THEN Ret(TRUE, FALSE)
        ELSE Ret(FALSE, \E i \in 1..Len(fetched.value) : fetched.value[i])

\* Mutant: the request error is not caught and leaves has_active_sessions.
PlexHasActiveSessionsNoExcept(resp) ==
    IF resp.error = "RequestException" THEN Ret(TRUE, FALSE)
    ELSE Ret(FALSE, Len(resp.sessions) > 0)

\* PlexMediaServer.has_active_sessions: MediaContainer.size > 0.
PlexHasActiveSessions(resp) ==
    IF resp.error = "RequestException" THEN Ret(FALSE, FALSE)
    ELSE Ret(FALSE, Len(resp.sessions) > 0)

\* EmbyMediaServer.has_active_sessions: len(sessions) > 0, active or not.
EmbyHasActiveSessions(resp) ==
    IF resp.error = "RequestException" THEN Ret(FALSE, FALSE)
    ELSE Ret(FALSE, Len(resp.sessions) > 0)

\* media_server.has_active_sessions(), by the class of the server.
ServerHasActiveSessions(kind, resp) ==
    CASE kind = "Jellyfin" -> JellyfinHasActiveSessions(resp)
      [] kind = "Plex"     -> PlexHasActiveSessions(resp)
      [] kind = "Emby"     -> EmbyHasActiveSessions(resp)

\* MediaServerManager.__init__: the servers whose *_HOST variable is set,
\* Jellyfin, then Plex, then Emby.
InitializeMediaServers(jellyfin, plex, emby) ==
    (IF jellyfin THEN <<"Jellyfin">> ELSE <<>>)
    \o (IF plex THEN <<"Plex">> ELSE <<>>)
    \o (IF emby THEN <<"Emby">> ELSE <<>>)

\* Mutant: the arbiter starts out busy.
InitialActivityBusy == TRUE

\* MediaServerManager.__init__: has_already_activity = False.
InitialActivity == FALSE

\* MediaServerManager.has_active_sessions: the for loop from server i on,
\* returning True at the first server that reports a session.
RECURSIVE HasActiveSessionsFrom(_, _, _)
HasActiveSessionsFrom(servers, resps, i) ==
    IF i > Len(servers) THEN Ret(FALSE, FALSE)
    ELSE LET r == ServerHasActiveSessions(servers[i], resps[i])
         IN  IF r.raised THEN r
             ELSE IF r.value THEN Ret(FALSE, TRUE)
             ELSE HasActiveSessionsFrom(servers, resps, i + 1)

\* Mutant: the loop returns after its first server, whatever it reports.
HasActiveSessionsFirstOnly(servers, resps) ==
    IF Len(servers) = 0 THEN Ret(FALSE, FALSE)
    ELSE ServerHasActiveSessions(servers[1], resps[1])

\* Mutant: the result remembers the activity of earlier cycles.
HasActiveSessionsSticky(servers, resps) ==
    LET r == HasActiveSessionsFrom(servers, resps, 1)
    IN  Ret(r.raised, r.value \/ has_already_activity)

HasActiveSessions(servers, resps) == HasActiveSessionsFrom(servers, resps, 1)

\* MediaServerManager.has_active_sessions never returning: the loop from
\* server i on reaches a server whose request blocks.
RECURSIVE BlocksFrom(_, _, _)
BlocksFrom(servers, resps, i) ==
    IF i > Len(servers) \/ i > Len(resps) THEN FALSE
    ELSE IF RequestBlocks(resps[i]) THEN TRUE
    ELSE LET r == ServerHasActiveSessions(servers[i], resps[i])
         IN  IF r.raised \/ r.value THEN FALSE
             ELSE BlocksFrom(servers, resps, i + 1)

HasActiveSessionsBlocks(servers, resps) == BlocksFrom(servers, resps, 1)

\* ------------------------------------------------------------------ notifier
NotifyStatuses == {NoResponse, HttpNoContent, HttpServerError}

\* DiscordNotifier.send_message: raises without a webhook URL, when the post
\* itself raises, and on any status but 204.
SendMessageRaises(url, status) ==
    IF ~url THEN TRUE
    ELSE status # HttpNoContent

\* ---------------------------------------------------------- download clients
ServiceOutcomes == {"ok", "error"}

\* DownloadManager._initialize_services: SABnzbd, then Deluge, then qBittorrent.
InitializeServices(sabnzbd, deluge, qbittorrent) ==
    (IF sabnzbd THEN <<"SABnzbd">> ELSE <<>>)
    \o (IF deluge THEN <<"Deluge">> ELSE <<>>)
    \o (IF qbittorrent THEN <<"qBittorrent">> ELSE <<>>)

\* Mutant: no adapter catches its client's error.
ServiceRaisesUncaught(kind, outcome) == outcome = "error"

\* service.pause() / service.resume() raising to its caller: SABnzbdService
\* catches requests.RequestException (and only logs a bad status),
\* DelugeService catches DelugeWebClientError, QbittorrentService catches
\* nothing.
ServiceRaises(kind, outcome) ==
    CASE kind = "SABnzbd"     -> FALSE
      [] kind = "Deluge"      -> FALSE
      [] kind = "qBittorrent" -> outcome = "error"

Call(target, op, ok) == [target |-> target, op |-> op, ok |-> ok]

\* for service in self.download_services: service.<op>(), from service i on;
\* an exception ends the loop.
RECURSIVE ForEachService(_, _, _, _)
ForEachService(services, outcomes, op, i) ==
    IF i > Len(services) THEN [calls |-> <<>>, raised |-> FALSE]
    ELSE LET this == Call(services[i], op, outcomes[i] = "ok")
         IN  IF ServiceRaises(services[i], outcomes[i])
             THEN [calls |-> <<this>>, raised |-> TRUE]
             ELSE LET rest == ForEachService(services, outcomes, op, i + 1)
                  IN  [calls |-> <<this>> \o rest.calls, raised |-> rest.raised]

\* The body of pause_downloads and of resume_downloads: send the message, then
\* call every service.  Neither function has a return statement: a call that
\* does not raise returns None.
NotifyThenFanout(url, status, services, outcomes, title, op) ==
    LET note == Call("notifier", title, ~SendMessageRaises(url, status))
    IN  IF SendMessageRaises(url, status)
        THEN [calls |-> <<note>>, raised |-> "notifier", returns |-> "raised"]
        ELSE LET loop == ForEachService(services, outcomes, op, 1)
             IN  [calls   |-> <<note>> \o loop.calls,
                  raised  |-> IF loop.raised THEN "backend" ELSE "none",
                  returns |-> IF loop.raised THEN "raised" ELSE "None"]

\* Mutant: pause_downloads calls the services first and sends the message last.
PauseDownloadsNotifyLast(url, status, services, outcomes) ==
    LET loop == ForEachService(services, outcomes, "pause", 1)
        note == Call("notifier", "Activity on Media Servers.",
                     ~SendMessageRaises(url, status))
    IN  IF loop.raised
        THEN [calls |-> loop.calls, raised |-> "backend", returns |-> "raised"]
        ELSE [calls   |-> loop.calls \o <<note>>,
              raised  |-> IF SendMessageRaises(url, status) THEN "notifier" ELSE "none",
              returns |-> IF SendMessageRaises(url, status) THEN "raised" ELSE "None"]

\* DownloadManager.pause_downloads
PauseDownloads(url, status, services, outcomes) ==
    NotifyThenFanout(url, status, services, outcomes,
                     "Activity on Media Servers.", "pause")

\* DownloadManager.resume_downloads
ResumeDownloads(url, status, services, outcomes) ==
    NotifyThenFanout(url, status, services, outcomes,
                     "No activity on Media Servers.", "resume")

\* ------------------------------------------------------------------- arbiter
\* Mutant: the rising edge forgets to look at the stored flag.
IsActivityJustStartedLevel(active, already) == active

\* check_and_notify: is_activity_just_started
IsActivityJustStarted(active, already) == active /\ ~already

\* Mutant: the falling edge forgets to look at the stored flag.
IsActivityJustStoppedUnlatched(active, already) == ~active

\* check_and_notify: is_activity_just_stopped
IsActivityJustStopped(active, already) == ~active /\ already

\* The set of answers the configured servers can give in one cycle.
RECURSIVE ReadingsUpTo(_, _)
ReadingsUpTo(servers, n) ==
    IF n = 0 THEN {<<>>}
    ELSE {Append(r, x) : r \in ReadingsUpTo(servers, n - 1), x \in Responses(servers[n])}

ReadingsFor(servers) == ReadingsUpTo(servers, Len(servers))

OutcomesFor(services) == [1..Len(services) -> ServiceOutcomes]

\* What main() does after check_and_notify: sleep, or die of the exception.
After(raisedBy) == IF raisedBy = "none" THEN "sleep" ELSE "crashed"

\* The answers of a cycle in which a request blocks: the servers asked before
\* it answered without reporting a session, and no server after it is asked.
RECURSIVE QuietReadingsUpTo(_, _)
QuietReadingsUpTo(servers, n) ==
    IF n = 0 THEN {<<>>}
    ELSE {Append(r, x) : r \in QuietReadingsUpTo(servers, n - 1),
                         x \in {y \in Responses(servers[n]) :
                                  ~ServerHasActiveSessions(servers[n], y).value}}

BlockedReadingsFor(servers) ==
    {Append(r, Unanswered) : r \in UNION {QuietReadingsUpTo(servers, n - 1) :
                                            n \in 1..Len(servers)}}

\* The most recent call of each service after the calls `made` of a cycle.
LastCallsAfter(last, services, made) ==
    [i \in 1..Len(services) |->
        IF \E k \in 1..Len(made) : made[k].target = services[i]
        THEN LET k == CHOOSE k \in 1..Len(made) :
                        /\ made[k].target = services[i]
                        /\ \A j \in (k + 1)..Len(made) : made[j].target # services[i]
             IN  [op |-> made[k].op, ok |-> made[k].ok]
        ELSE last[i]]

\* Mutant: the flag is stored after pause_downloads / resume_downloads
\* returned, so a call that raises leaves it as it was.
StoredOnEdgeAfterCall(active, raisedBy) ==
    IF raisedBy = "none" THEN active ELSE ~active

\* check_and_notify: self.has_already_activity = True / False, assigned before
\* pause_downloads / resume_downloads is called.
StoredOnEdge(active, raisedBy) == active

\* What check_and_notify does on an edge, given what the function it called did.
OnEdge(intent, active, done) ==
    /\ has_already_activity' = StoredOnEdge(active, done.raised)
    /\ intents' = <<intent>>
    /\ calls' = done.calls
    /\ raised' = done.raised
    /\ returned' = done.returns
    /\ last_call' = LastCallsAfter(last_call, download_services, done.calls)
    /\ last_intent' = intent
    /\ pauses_minus_resumes' =
           pauses_minus_resumes + (IF intent = "Pause" THEN 1 ELSE -1)
    /\ pc' = After(done.raised)

\* What check_and_notify leaves when it calls neither function.
NoEdge(raisedBy, at) ==
    /\ intents' = <<>>
    /\ calls' = <<>>
    /\ raised' = raisedBy
    /\ returned' = "not called"
    /\ pc' = at
    /\ UNCHANGED <<has_already_activity, last_call, last_intent, pauses_minus_resumes>>

\* One call of MediaServerManager.check_and_notify from main()'s loop.
CheckAndNotify ==
    /\ pc = "check"
    /\ \E resps \in ReadingsFor(media_servers) \cup BlockedReadingsFor(media_servers) :
         LET has == HasActiveSessions(media_servers, resps)
         IN  /\ readings' = resps
             /\ prev_activity' = has_already_activity
             /\ evaluations' = IF evaluations = "none" THEN "first" ELSE "later"
             /\ UNCHANGED <<media_servers, download_services, webhook_url, backend>>
             /\ IF HasActiveSessionsBlocks(media_servers, resps)
                THEN /\ aggregate' = FALSE
                     /\ NoEdge("none", "blocked")
                ELSE IF has.raised
                THEN /\ aggregate' = FALSE
                     /\ NoEdge("probe", "crashed")
                ELSE /\ aggregate' = has.value
                     /\ IF IsActivityJustStarted(has.value, has_already_activity)
                        THEN \E status \in NotifyStatuses :
                             \E outcomes \in OutcomesFor(download_services) :
                                 OnEdge("Pause", TRUE,
                                        PauseDownloads(webhook_url, status,
                                                       download_services, outcomes))
                        ELSE IF IsActivityJustStopped(has.value, has_already_activity)
                        THEN \E status \in NotifyStatuses :
                             \E outcomes \in OutcomesFor(download_services) :
                                 OnEdge("Resume", FALSE,
                                        ResumeDownloads(webhook_url, status,
                                                        download_services, outcomes))
                        ELSE NoEdge("none", "sleep")

\* time.sleep(check_interval), then the next turn of while True.
Sleep ==
    /\ pc = "sleep"
    /\ pc' = "check"
    /\ UNCHANGED <<media_servers, download_services, webhook_url,
                   has_already_activity, evaluations, readings, aggregate,
                   prev_activity, intents, calls, raised, returned, last_call,
                   last_intent, pauses_minus_resumes, backend>>

\* No download client is simulated while main() runs.
NoBackend ==
    [kind |-> "none", torrents |-> <<>>, before |-> <<>>, op |-> "none",
     repeated |-> FALSE, erred |-> FALSE]

\* The objects of main() as their constructors leave them, for the given
\* configuration.
Constructed(servers, services, url) ==
    /\ media_servers = servers
    /\ download_services = services
    /\ webhook_url = url
    /\ has_already_activity = InitialActivity
    /\ pc = "check"
    /\ evaluations = "none"
    /\ readings = <<>>
    /\ aggregate = FALSE
    /\ prev_activity = FALSE
    /\ intents = <<>>
    /\ calls = <<>>
    /\ raised = "none"
    /\ returned = "not called"
    /\ last_call = [i \in 1..Len(services) |-> [op |-> "none", ok |-> TRUE]]
    /\ last_intent = "none"
    /\ pauses_minus_resumes = 0

\* main() up to the loop, for every configuration of the environment.
Init ==
    /\ \E j \in BOOLEAN, p \in BOOLEAN, e \in BOOLEAN :
       \E s \in BOOLEAN, d \in BOOLEAN, q \in BOOLEAN :
       \E url \in BOOLEAN :
           Constructed(InitializeMediaServers(j, p, e), InitializeServices(s, d, q), url)
    /\ backend = NoBackend

Next == CheckAndNotify \/ Sleep

Spec == Init /\ [][Next]_vars

\* main()'s while True never stops on its own: a step that can be taken is
\* taken.
FairSpec == Spec /\ WF_vars(CheckAndNotify) /\ WF_vars(Sleep)

\* ------------------------------------------- the adapters on a simulated client
\* A simulated download client is the list of its torrents' paused flags (for
\* SABnzbd: the one flag of its queue).  It carries out a command on the
\* torrents named and leaves the others alone.
BackendExecute(command, ids, torrents) ==
    [i \in 1..Len(torrents) |-> IF i \in ids THEN command = "pause" ELSE torrents[i]]

Done(torrents) == [torrents |-> torrents, raised |-> FALSE]

\* SABnzbdService._call_api: one request with the mode; nothing is raised.
SABnzbdCallApi(mode, torrents) ==
    Done(BackendExecute(mode, 1..Len(torrents), torrents))

\* DelugeService.get_all_torrent_ids: every torrent, paused or not.
DelugeGetAllTorrentIds(torrents) == 1..Len(torrents)

\* Mutant: pause calls resume_torrents (the body copied from resume).
DelugePauseAsResume(torrents) ==
    LET torrent_ids == DelugeGetAllTorrentIds(torrents)
    IN  IF torrent_ids # {}
        THEN Done(BackendExecute("resume", torrent_ids, torrents))
        ELSE Done(torrents)

\* DelugeService.pause
DelugePause(torrents) ==
    LET torrent_ids == DelugeGetAllTorrentIds(torrents)
    IN  IF torrent_ids # {}
        THEN Done(BackendExecute("pause", torrent_ids, torrents))
        ELSE Done(torrents)

\* DelugeService.resume
DelugeResume(torrents) ==
    LET torrent_ids == DelugeGetAllTorrentIds(torrents)
    IN  IF torrent_ids # {}
        THEN Done(BackendExecute("resume", torrent_ids, torrents))
        ELSE Done(torrents)

\* QbittorrentService.pause: torrents.pause_all()
QbittorrentPause(torrents) ==
    Done(BackendExecute("pause", 1..Len(torrents), torrents))

\* QbittorrentService.resume: torrents.resume_all()
QbittorrentResume(torrents) ==
    Done(BackendExecute("resume", 1..Len(torrents), torrents))

\* service.pause() / service.resume(), by the class of the service.
ServiceCall(kind, op, torrents) ==
    CASE kind = "SABnzbd" -> SABnzbdCallApi(op, torrents)
      [] kind = "Deluge" /\ op = "pause" -> DelugePause(torrents)
      [] kind = "Deluge" /\ op = "resume" -> DelugeResume(torrents)
      [] kind = "qBittorrent" /\ op = "pause" -> QbittorrentPause(torrents)
      [] kind = "qBittorrent" /\ op = "resume" -> QbittorrentResume(torrents)

\* The clients a simulation starts from, in any state.
SimulatedBackends ==
    {[kind |-> "SABnzbd", torrents |-> <<q>>] : q \in BOOLEAN}
    \cup {[kind |-> k, torrents |-> t] :
            k \in {"Deluge", "qBittorrent"}, t \in SeqsUpTo(BOOLEAN, MaxTorrents)}

\* One call of the adapter's pause() or resume() on the simulated client.
BackendCall(op) ==
    LET done == ServiceCall(backend.kind, op, backend.torrents)
    IN  /\ backend' = [kind     |-> backend.kind,
                       torrents |-> done.torrents,
                       before   |-> backend.torrents,
                       op       |-> op,
                       repeated |-> backend.op = op,
                       erred    |-> done.raised]
        /\ UNCHANGED <<media_servers, download_services, webhook_url,
                       has_already_activity, pc, evaluations, readings, aggregate,
                       prev_activity, intents, calls, raised, returned, last_call,
                       last_intent, pauses_minus_resumes>>

BackendPause == BackendCall("pause")

BackendResume == BackendCall("resume")

BackendInit ==
    /\ \E b \in SimulatedBackends :
           /\ Constructed(<<>>, <<b.kind>>, FALSE)
           /\ backend = [kind |-> b.kind, torrents |-> b.torrents,
                         before |-> b.torrents, op |-> "none",
                         repeated |-> FALSE, erred |-> FALSE]

BackendNext == BackendPause \/ BackendResume

\* A download client driven by its adapter alone, from any state.
BackendSpec == BackendInit /\ [][BackendNext]_vars

\* ==================================================================== claims
\* The boolean probe i reported in the last cycle.
Reports(i) == ServerHasActiveSessions(media_servers[i], readings[i]).value

AnyReports == \E i \in 1..Len(readings) : Reports(i)

\* check_and_notify has been called and its last call got an aggregate.
Evaluated == evaluations # "none" /\ pc # "blocked"

NotifierCalls == {k \in 1..Len(calls) : calls[k].target = "notifier"}

\* The operation the intent of the last cycle asks of the services.
IntentOp == IF intents = <<"Pause">> THEN "pause" ELSE "resume"

\* Service i of the registry was called with the intent's operation.
Attempted(i) ==
    \E k \in 1..Len(calls) :
        calls[k].target = download_services[i] /\ calls[k].op = IntentOp

\* C1: over successive calls of check_and_notify (the arbiter starting idle),
\* a cycle whose aggregate rises from false to true emits exactly one Pause, a
\* cycle whose aggregate falls from true to false emits exactly one Resume,
\* and a cycle whose aggregate equals the previous one emits no intent.
C1_EdgeIntents ==
    [][pc = "check" /\ pc' # "blocked" =>
        /\ (~aggregate /\ aggregate') => intents' = <<"Pause">>
        /\ (aggregate /\ ~aggregate') => intents' = <<"Resume">>
        /\ (aggregate = aggregate') => intents' = <<>>]_vars

C1_Witness ==
    /\ evaluations = "later"
    /\ prev_activity /\ ~aggregate
    /\ intents = <<"Resume">>
    /\ pc = "sleep"

\* C2: with two or more media servers, Resume is emitted only in a cycle in
\* which every server reports false, and a cycle in which some server still
\* reports activity after a cycle with activity emits nothing (no Resume, no
\* second Pause).
C2_MultiSourceSuppression ==
    /\ [](Len(media_servers) >= 2 /\ intents = <<"Resume">>
            => \A i \in 1..Len(readings) : ~Reports(i))
    /\ [][pc = "check" /\ Len(media_servers) >= 2 /\ AnyReports /\ AnyReports'
            => intents' = <<>>]_vars

C2_Witness ==
    /\ Evaluated
    /\ Len(media_servers) >= 2
    /\ prev_activity
    /\ ~Reports(1) /\ Reports(2)
    /\ intents = <<>>
    /\ pc = "sleep"

\* C3: once the loop over the services runs, every registered service is
\* called with the intent's operation, whichever of them fail.
C3_BackendIsolation ==
    Evaluated /\ intents # <<>> /\ raised # "notifier"
        => \A i \in 1..Len(download_services) : Attempted(i)

C3_Witness ==
    /\ Evaluated
    /\ Len(download_services) = 3
    /\ Len(calls) = 4
    /\ ~calls[2].ok /\ ~calls[3].ok /\ ~calls[4].ok
    /\ \A i \in 1..3 : Attempted(i)

\* C4 (as claimed): in every cycle that detects an edge, every registered
\* service is called, whether or not send_message raised.
C4_FanoutDespiteNotifierFailure ==
    Evaluated /\ intents # <<>>
        => \A i \in 1..Len(download_services) : Attempted(i)

\* C5 (as claimed): in every cycle that emits an intent, the notifier is
\* called after every registered service has been called.
C5_NotifyAfterFanout ==
    Evaluated /\ intents # <<>>
        => \E n \in NotifierCalls :
             \A i \in 1..Len(download_services) :
                 \E k \in 1..(n - 1) :
                     calls[k].target = download_services[i] /\ calls[k].op = IntentOp

\* C6 (as claimed): whatever fails in a cycle, main()'s loop goes on to the
\* next poll tick; nothing raises out of check_and_notify.
C6_LoopNeverTerminates ==
    Evaluated => pc # "crashed" /\ raised = "none"

\* C7: a server whose request fails counts as false and the failure stays
\* inside the probe: with every server failing the aggregate is false, the
\* aggregate is true only if a server that answered has a session, and a
\* server that answered with an active session makes the aggregate true
\* whichever other servers failed.
Failed(i) == readings[i].error # "none"

AnsweredActive(i) ==
    /\ ~Failed(i)
    /\ IF media_servers[i] = "Jellyfin"
       THEN \E k \in 1..Len(readings[i].sessions) : readings[i].sessions[k]
       ELSE Len(readings[i].sessions) > 0

C7_ProbeFailureIsInactive ==
    Evaluated =>
        /\ raised # "probe"
        /\ (\A i \in 1..Len(readings) : Failed(i)) => ~aggregate
        /\ aggregate <=> \E i \in 1..Len(readings) : AnsweredActive(i)

C7_Witness ==
    /\ Evaluated
    /\ Len(media_servers) = 3
    /\ Failed(1) /\ Failed(2) /\ AnsweredActive(3)
    /\ aggregate
    /\ intents = <<"Pause">>

\* C8: the aggregate of a cycle is the OR of what the configured servers
\* report in that cycle, whatever the stored flag and the earlier cycles were
\* (false with no server configured).
C8_AggregateIsOr ==
    Evaluated =>
        /\ aggregate = (\E i \in 1..Len(media_servers) : Reports(i))
        /\ Len(media_servers) = 0 => ~aggregate

C8_Witness ==
    /\ Evaluated
    /\ Len(media_servers) = 2
    /\ ~Reports(1) /\ Reports(2)
    /\ aggregate
    /\ ~prev_activity

\* C9: the first evaluation of a fresh arbiter emits Pause if it reads
\* activity and nothing if it reads none.
C9_RestartFromBusy ==
    evaluations = "first" =>
        /\ aggregate => intents = <<"Pause">>
        /\ ~aggregate => intents = <<>>

C9_Witness ==
    /\ evaluations = "first"
    /\ aggregate
    /\ intents = <<"Pause">>

\* C10: send_message is called exactly once in a cycle with a rising edge
\* (with the pause message) and in a cycle with a falling edge (with the
\* resume message), a failing service included, and never in a cycle without
\* an edge.
C10_NotifyOncePerEdge ==
    Evaluated =>
        /\ (~prev_activity /\ aggregate) =>
              /\ Cardinality(NotifierCalls) = 1
              /\ \A n \in NotifierCalls : calls[n].op = "Activity on Media Servers."
        /\ (prev_activity /\ ~aggregate) =>
              /\ Cardinality(NotifierCalls) = 1
              /\ \A n \in NotifierCalls : calls[n].op = "No activity on Media Servers."
        /\ (prev_activity = aggregate) => NotifierCalls = {}

C10_Witness ==
    /\ Evaluated
    /\ ~prev_activity /\ aggregate
    /\ raised = "backend"
    /\ Cardinality(NotifierCalls) = 1

\* C11 (as claimed): a cycle in which a media server never answers still
\* completes: the request is given up, the server counts as false and main()
\* reaches its next poll tick.
C11_CycleCompletes ==
    (\E i \in 1..Len(readings) : RequestBlocks(readings[i]))
        => pc \in {"sleep", "check"}

\* C12 (as claimed): a fanout that went through a registry of at least one
\* service returns a result that says, for each registered service, whether
\* its call succeeded.
C12_FanoutReportsPerBackend ==
    intents # <<>> /\ raised = "none" /\ download_services # <<>>
        => /\ returned \notin {"None", "not called", "raised"}
           /\ DOMAIN returned = 1..Len(download_services)
           /\ \A i \in 1..Len(download_services) : returned[i] = last_call[i].ok

\* C14: after every call of check_and_notify that got an aggregate, the
\* stored flag equals that aggregate, with or without an intent, and also
\* when the notifier or a service raised.
C14_StoredEqualsAggregate ==
    Evaluated => has_already_activity = aggregate

C14_Witness ==
    /\ Evaluated
    /\ raised = "notifier"
    /\ aggregate /\ ~prev_activity
    /\ has_already_activity

\* Service i's most recent call is a pause that failed.
PauseFailed(i) ==
    /\ i <= Len(download_services)
    /\ last_call[i].op = "pause"
    /\ ~last_call[i].ok

PauseCalled(i) ==
    /\ i <= Len(download_services)
    /\ \E k \in 1..Len(calls) :
           calls[k].target = download_services[i] /\ calls[k].op = "pause"

\* C15 (as claimed): once a service's pause has failed, a later cycle calls
\* pause on it again unless the aggregate stops being true.
C15_FailedPauseIsRetried ==
    \A i \in 1..3 :
        (pc = "check" /\ has_already_activity /\ PauseFailed(i))
            ~> (pc # "check" /\ (~aggregate \/ PauseCalled(i)))

\* C15 (amended): a failed pause is not retried while the activity lasts: a
\* cycle that reads activity when the stored flag is already set calls no
\* service, and pause is called only in a cycle with a rising edge.
C15_NoRetryWhileBusy ==
    /\ [][pc = "check" /\ has_already_activity /\ aggregate'
            => calls' = <<>> /\ last_call' = last_call]_vars
    /\ [](\A i \in 1..3 : PauseCalled(i) => ~prev_activity /\ aggregate)

C15_Witness ==
    /\ evaluations = "later"
    /\ pc = "sleep"
    /\ prev_activity /\ aggregate
    /\ calls = <<>>
    /\ \E i \in 1..3 : PauseFailed(i)

\* C16 (as claimed): between cycles, when the stored flag is set the most
\* recent call of every registered service is pause, and when it is clear the
\* most recent call of every service, if it ever had one, is resume.
C16_FlagMatchesLastCalls ==
    \A i \in 1..Len(download_services) :
        IF has_already_activity
        THEN last_call[i].op = "pause"
        ELSE last_call[i].op \in {"none", "resume"}

\* The calls the services got in the last cycle, in order.
ServiceCalls == SelectSeq(calls, LAMBDA c : c.target # "notifier")

\* C17 (as claimed): on each emitted intent, every registered service gets
\* exactly one call, of the intent's operation, in registry order, and no
\* service gets the opposite operation.
C17_OneCallPerBackendInOrder ==
    intents # <<>>
        => /\ Len(ServiceCalls) = Len(download_services)
           /\ \A i \in 1..Len(ServiceCalls) :
                  /\ ServiceCalls[i].target = download_services[i]
                  /\ ServiceCalls[i].op = IntentOp

\* C18: the intents of a run alternate, starting with Pause: an intent that
\* follows no intent or a Resume is a Pause, an intent that follows a Pause
\* is a Resume, and Pause intents minus Resume intents is always 0 or 1.
C18_IntentsAlternate ==
    /\ [](pauses_minus_resumes \in {0, 1})
    /\ [][pc = "check" /\ intents' # <<>>
            => intents' = (IF last_intent = "Pause" THEN <<"Resume">> ELSE <<"Pause">>)]_vars

C18_Witness ==
    /\ intents = <<"Resume">>
    /\ last_intent = "Resume"
    /\ pauses_minus_resumes = 0
    /\ pc = "sleep"

\* C13: a second pause right after a pause (a second resume right after a
\* resume) does not raise and leaves the simulated client as the first call
\* left it: every torrent paused (running).
C13_PauseResumeIdempotent ==
    backend.repeated =>
        /\ ~backend.erred
        /\ backend.torrents = backend.before
        /\ \A i \in 1..Len(backend.torrents) :
               backend.torrents[i] = (backend.op = "pause")

C13_Witness ==
    /\ backend.kind = "Deluge"
    /\ backend.repeated
    /\ backend.op = "pause"
    /\ Len(backend.torrents) = 2

====
